---------------------------- MODULE Spec2Model ----------------------------
(***************************************************************************)
(* A model of beancount_starlingbank:                                      *)
(*   - starlingbank_importer.py: Importer.identify / Importer.extract and  *)
(*     the module's helper functions;                                      *)
(*   - starlingbank_download.py: the rate-limited, multi-token downloader. *)
(*   - starlingbank-download.py: the single-token downloader.              *)
(*                                                                         *)
(* Python values that can be of several types are tagged records; a call   *)
(* that can raise yields Return(v) or Raise(exception name).               *)
(***************************************************************************)
EXTENDS Integers, Sequences, FiniteSets, TLC

VARIABLES
    \* ---- importer (one identify / extract call of the import host) ----
    filepath,       \* the candidate file: its extension and its parsed content
    account_id,     \* Importer.account_id, the configured identifier
    ipc,            \* where the importer is: idle, identified, loop, done, failed
    idx,            \* extract: position of the loop in the feed (runs backwards)
    entries,        \* extract: the list `entries`
    counter,        \* extract: itertools.count(), the next value
    payee_lookups,  \* feedItemUids for which get_payee_account was called
    today,          \* what datetime.date.today() returned (0: not read)
    outcome,        \* what the last call returned or raised
    \* ---- get_unit_price alone ----
    txn,            \* the transaction get_unit_price is applied to
    \* ---- downloader (one run of either script) ----
    script,         \* which script runs
    argv,           \* sys.argv[1:], each argument a sequence of characters
    TOKEN_LIST,     \* the configured tokens (the one TOKEN of the older script)
    dpc,            \* where the run is
    fromdate,       \* main's fromdate
    exit_status,    \* the process's exit status (-1: still running)
    stdout,         \* the lines printed
    tk,             \* main: position in TOKEN_LIST
    accounts,       \* the accounts response being iterated
    ac,             \* position in accounts
    doc,            \* main's `entries`, the document of the current account
    transactions,   \* get_account_transactions: its `transactions` dict
    spaces_categories, \* get_account_transactions: the space categories
    sp,             \* position in spaces_categories
    files,          \* DATA_FOLDER: file name -> content
    enumerated,     \* every account an accounts response has listed
    n_requests,     \* HTTP requests issued
    slept,          \* milliseconds of time.sleep since the last request
    failed          \* a response had a non-success status

ivars == <<filepath, account_id, ipc, idx, entries, counter, payee_lookups,
           today, outcome>>
dvars == <<script, argv, TOKEN_LIST, dpc, fromdate, exit_status, stdout, tk,
           accounts, ac, doc, transactions, spaces_categories, sp, files,
           enumerated, n_requests, slept, failed>>
vars == <<ivars, txn, dvars>>

----------------------------------------------------------------------------
(* Bounds of the model *)

\* longest transactions.feedItems list
MaxFeed == 2
\* calendar days 1..MaxDay carry transactions
MaxDay == 2
\* get_unit_price is tried on minor units in -MaxMinor..MaxMinor
MaxMinor == 3
\* longest command line
MaxArgs == 2
\* most tokens in TOKEN_LIST
MaxTokens == 2
\* most accounts the tokens of one run hold between them
MaxAccounts == 2
\* most savings goals in a spaces response
MaxSpaces == 1

----------------------------------------------------------------------------
(* Python values *)

Return(v) == [kind |-> "return", value |-> v]
Raise(e) == [kind |-> "raise", exc |-> e]
NoOutcome == [kind |-> "none"]

PyNone == [py |-> "None"]
PyBool(b) == [py |-> "bool", b |-> b]
PyStr(s) == [py |-> "str", s |-> s]
\* Python's ==, between values of any two types
PyEq(a, b) == a.py = b.py /\ a = b

\* `sub in s` for the API's enumeration strings, none of which contains
\* another as a proper substring
Contains(sub, s) == s = sub

\* a Decimal: coeff / scale
Dec(coeff, scale) == [coeff |-> coeff, scale |-> scale]
Neg(d) == [d EXCEPT !.coeff = -d.coeff]
Abs(n) == IF n < 0 THEN -n ELSE n

----------------------------------------------------------------------------
(* The candidate file.  ext is the file name's extension; content is what  *)
(* json.load makes of the file: "malformed" (no JSON document), an array,  *)
(* or an object, whose "account" member is null or an object.              *)

\* mimetypes.guess_type(filepath)[0]
guess_type(ext) ==
    CASE ext = ".json" -> "application/json"
      [] ext = ".csv" -> "text/csv"
      [] OTHER -> "None"

JObject(members) == [t |-> "object", v |-> members]
JNull == [t |-> "null"]
JArray == [t |-> "array"]
Malformed == [t |-> "malformed"]

\* json.load(data_file)[key], as the helper functions all begin
load_member(fp, key) ==
    CASE fp.content.t = "malformed" -> Raise("JSONDecodeError")
      [] fp.content.t = "array" -> Raise("TypeError")
      [] fp.content.t = "object" ->
            IF key \in DOMAIN fp.content.v
            THEN Return(fp.content.v[key])
            ELSE Raise("KeyError")

get_account_id(fp) ==
    IF guess_type(fp.ext) # "application/json" THEN Return(PyBool(FALSE))
    ELSE LET account_data == load_member(fp, "account") IN
         IF account_data.kind = "raise"
         THEN \* only KeyError is caught
              IF account_data.exc = "KeyError" THEN Return(PyBool(FALSE))
              ELSE account_data
         ELSE IF account_data.value.t # "object" THEN Raise("TypeError")
         ELSE IF "accountUid" \in DOMAIN account_data.value.v
              THEN Return(PyStr(account_data.value.v.accountUid))
              ELSE Return(PyBool(FALSE))

\* Importer.identify
identify(fp, configured) ==
    LET identifier == get_account_id(fp) IN
    IF identifier.kind = "raise" THEN identifier
    ELSE Return(PyBool(PyEq(identifier.value, PyStr(configured))))

get_account_default_category(fp) ==
    IF guess_type(fp.ext) # "application/json" THEN Return(PyBool(FALSE))
    ELSE LET account_data == load_member(fp, "account") IN
         IF account_data.kind = "raise" THEN account_data
         ELSE IF account_data.value.t # "object" THEN Raise("TypeError")
         ELSE IF "defaultCategory" \in DOMAIN account_data.value.v
              THEN Return(PyStr(account_data.value.v.defaultCategory))
              ELSE Return(PyBool(FALSE))

get_transactions(fp) ==
    IF guess_type(fp.ext) # "application/json" THEN Return(PyBool(FALSE))
    ELSE LET transaction_data == load_member(fp, "transactions") IN
         IF transaction_data.kind = "raise" THEN transaction_data
         ELSE IF "feedItems" \in DOMAIN transaction_data.value
              THEN Return([py |-> "list", items |-> transaction_data.value.feedItems])
              ELSE Return(PyBool(FALSE))

\* the first account, in list order, of the first payee with that payeeUid
\* that has an account with that payeeAccountUid; None when there is none
get_payee_account(fp, payeeUid, payeeAccountUid) ==
    LET payee_data == fp.content.v.payees
        pairs == UNION {{<<i, j>> : j \in DOMAIN payee_data[i].accounts} :
                            i \in DOMAIN payee_data}
        hits == {ij \in pairs :
                    /\ payee_data[ij[1]].payeeUid = payeeUid
                    /\ payee_data[ij[1]].accounts[ij[2]].payeeAccountUid = payeeAccountUid}
        first == CHOOSE h \in hits : \A g \in hits :
                    h[1] < g[1] \/ (h[1] = g[1] /\ h[2] <= g[2])
    IN IF hits = {} THEN PyNone
       ELSE [py |-> "dict", d |-> payee_data[first[1]].accounts[first[2]]]

get_category_name(fp, categoryUid) ==
    LET spaces_data == fp.content.v.spaces.savingsGoals
        hits == {i \in DOMAIN spaces_data : spaces_data[i].savingsGoalUid = categoryUid}
    IN IF hits = {} THEN PyNone
       ELSE PyStr(spaces_data[CHOOSE i \in hits : \A j \in hits : i <= j].name)

get_balance(fp) == fp.content.v.balance.totalClearedBalance

\* datetime.fromisoformat(date_str).date(): the time of day is dropped
parse_transaction_time(date_str) == date_str.date

----------------------------------------------------------------------------
(* Importer.extract, one feed item *)

VALID_STATUS == {"SETTLED", "REFUNDED", "ACCOUNT_CHECK"}

\* D(minorUnits) / 100
MinorPerUnit == 100
\* round(..., 5): prices are kept in units of 10^-5
PriceScale == 100000

\* round(n / d) to the nearest integer, ties to the even one (Decimal.__round__),
\* for n >= 0 and d > 0
round_half_even(n, d) ==
    LET q == n \div d
        r == n % d
    IN IF 2 * r > d THEN q + 1
       ELSE IF 2 * r = d THEN q + (q % 2)
       ELSE q

Amount(number, currency) == [py |-> "Amount", number |-> number, currency |-> currency]

get_unit_price(transaction) ==
    IF /\ transaction.sourceAmount.currency # transaction.amount.currency
       /\ transaction.sourceAmount.minorUnits # 0
    THEN LET total_local_amount == transaction.amount.minorUnits
             total_foreign_amount == transaction.sourceAmount.minorUnits
         IN IF total_local_amount = 0
            THEN Raise("DivisionByZero")   \* Decimal / Decimal(0)
            ELSE Return(Amount(
                    Dec(round_half_even(Abs(total_foreign_amount) * PriceScale,
                                        Abs(total_local_amount)), PriceScale),
                    transaction.sourceAmount.currency))
    ELSE Return(PyNone)

EmptyDict == [k \in {} |-> PyNone]
\* dict.update
Update(d, e) == [k \in DOMAIN d \cup DOMAIN e |-> IF k \in DOMAIN e THEN e[k] ELSE d[k]]

\* which arm of the counterparty if / elif chain a feed item takes
counterparty_arm(transaction) ==
    IF /\ Contains("SENDER", transaction.counterPartyType)
       /\ ~Contains("STARLING_PAY_STRIPE", transaction.source)
    THEN "sender"
    ELSE IF Contains("PAYEE", transaction.counterPartyType) THEN "payee"
    ELSE IF Contains("CATEGORY", transaction.counterPartyType) THEN "category"
    ELSE "none"

counterparty_metadata(fp, transaction) ==
    CASE counterparty_arm(transaction) = "sender" ->
            [counterparty_sort_code |-> transaction.counterPartySubEntityIdentifier,
             counterparty_account_number |-> transaction.counterPartySubEntitySubIdentifier]
      [] counterparty_arm(transaction) = "payee" ->
            LET account == get_payee_account(fp, transaction.counterPartyUid,
                                             transaction.counterPartySubEntityUid)
            IN IF account.py # "None"
               THEN [counterparty_sort_code |-> account.d.bankIdentifier,
                     counterparty_account_number |-> account.d.accountIdentifier,
                     counterparty_account_description |-> account.d.description]
               ELSE EmptyDict
      [] counterparty_arm(transaction) = "category" ->
            [counterparty_type |-> transaction.counterPartyType,
             counterparty_uid |-> transaction.counterPartyUid,
             counterparty_name |-> transaction.counterPartyName]
      [] OTHER -> EmptyDict

transaction_metadata(fp, transaction, default_category) ==
    LET m1 == [bank_id |-> transaction.feedItemUid]
        m2 == IF ~PyEq(PyStr(transaction.categoryUid), default_category)
              THEN [bank_category |-> transaction.categoryUid,
                    bank_space_name |-> get_category_name(fp, transaction.categoryUid)]
              ELSE EmptyDict
        m3 == IF "reference" \in DOMAIN transaction
              THEN [bank_description |-> transaction.reference]
              ELSE EmptyDict
        m4 == [bank_created_date |-> transaction.transactionTime,
               bank_settlement_date |-> transaction.settlementTime,
               bank_updated_date |-> transaction.updatedAt]
    IN Update(Update(Update(Update(m1, m2), m3), m4),
              counterparty_metadata(fp, transaction))

\* data.new_metadata(filename, lineno, kvlist)
new_metadata(filename, lineno, kvlist) ==
    Update([filename |-> filename, lineno |-> lineno], kvlist)

\* " / ".join(filter(None, [name, reference, source])), as the list of its parts
narration_parts(transaction) ==
    (IF "counterPartySubEntityName" \in DOMAIN transaction
     THEN <<transaction.counterPartySubEntityName>> ELSE <<>>)
    \o (IF "reference" \in DOMAIN transaction
        THEN <<transaction.reference>> ELSE <<>>)
    \o <<transaction.source>>

Posting(account, units, price) == [account |-> account, units |-> units, price |-> price]

\* postings with the second posting of an internal transfer left out
transaction_postings_single(importer_account, transaction, price) ==
    LET unit == Amount(Dec(transaction.amount.minorUnits, MinorPerUnit),
                       transaction.amount.currency)
        minus == [unit EXCEPT !.number = Neg(unit.number)]
    IN IF transaction.direction = "OUT"
       THEN <<Posting(importer_account, minus, price)>>
       ELSE <<Posting(importer_account, unit, price)>>

\* the postings of a feed item: -amount for OUT and +amount for IN, and the
\* opposite posting after it for an INTERNAL_TRANSFER
transaction_postings(importer_account, transaction, price) ==
    LET unit == Amount(Dec(transaction.amount.minorUnits, MinorPerUnit),
                       transaction.amount.currency)
        minus == [unit EXCEPT !.number = Neg(unit.number)]
    IN IF transaction.direction = "OUT"
       THEN <<Posting(importer_account, minus, price)>>
            \o (IF transaction.source = "INTERNAL_TRANSFER"
                THEN <<Posting(importer_account, unit, price)>> ELSE <<>>)
       ELSE <<Posting(importer_account, unit, price)>>
            \o (IF transaction.source = "INTERNAL_TRANSFER"
                THEN <<Posting(importer_account, minus, price)>> ELSE <<>>)

\* the data.Transaction a feed item with a valid status becomes
transaction_entry(fp, importer_account, transaction, default_category, lineno, price) ==
    [type |-> "Transaction",
     meta |-> new_metadata(fp.name, lineno,
                           transaction_metadata(fp, transaction, default_category)),
     date |-> parse_transaction_time(transaction.transactionTime),
     flag |-> "*",
     payee |-> transaction.counterPartyName,
     narration |-> narration_parts(transaction),
     postings |-> transaction_postings(importer_account, transaction, price)]

balance_entry(fp, importer_account, balance_date, lineno) ==
    [type |-> "Balance",
     meta |-> new_metadata(fp.name, lineno, EmptyDict),
     date |-> balance_date,
     account |-> importer_account,
     amount |-> Amount(Dec(get_balance(fp).minorUnits, MinorPerUnit),
                       get_balance(fp).currency)]

\* beancount.core.data.entry_sortkey: date, then the type's rank (a Balance
\* comes before the Transactions of its day), then the line number
SortRank(entry) == IF entry.type = "Balance" THEN -1 ELSE 0
SortsBefore(a, b) ==
    \/ a.date < b.date
    \/ a.date = b.date /\ SortRank(a) < SortRank(b)
    \/ a.date = b.date /\ SortRank(a) = SortRank(b) /\ a.meta.lineno <= b.meta.lineno

RECURSIVE insert_sorted(_, _)
insert_sorted(sorted, e) ==
    IF sorted = <<>> THEN <<e>>
    ELSE IF SortsBefore(sorted[Len(sorted)], e) THEN Append(sorted, e)
    ELSE Append(insert_sorted(SubSeq(sorted, 1, Len(sorted) - 1), e),
                sorted[Len(sorted)])

\* data.sorted(entries): a stable sort by entry_sortkey
RECURSIVE data_sorted(_)
data_sorted(es) ==
    IF es = <<>> THEN <<>>
    ELSE insert_sorted(data_sorted(SubSeq(es, 1, Len(es) - 1)), es[Len(es)])

----------------------------------------------------------------------------
(* The downloader's command line: getopt.getopt(argv, "hd:", "date=")      *)

\* the command-line arguments tried, as sequences of characters
ArgH == <<"-", "h">>
ArgHelp == <<"-", "-", "h", "e", "l", "p">>
ArgX == <<"-", "x">>
ArgD == <<"-", "d">>
ArgDate == <<"-", "-", "d", "a", "t", "e">>
ArgDashDash == <<"-", "-">>
ArgIso == <<"2", "0", "2", "4", "-", "0", "1", "-", "0", "1">>
ArgSoon == <<"s", "o", "o", "n">>
Arguments == {ArgH, ArgHelp, ArgX, ArgD, ArgDate, ArgDashDash, ArgIso, ArgSoon}

SHORTOPTS == <<"h", "d", ":">>
\* long options with "help" among them
LONGOPTS_with_help == << <<"d", "a", "t", "e", "=">>, <<"h", "e", "l", "p">> >>
\* getopt turns the string "date=" into the list ["date="]
LONGOPTS == << <<"d", "a", "t", "e", "=">> >>
USAGE == "starling-download.py -d <date>"

StartsWith(s, prefix) ==
    Len(s) >= Len(prefix) /\ SubSeq(s, 1, Len(prefix)) = prefix
Drop(s, n) == SubSeq(s, n + 1, Len(s))
\* s.find(c) + 1: the first position of c in s, 0 when absent
Find(s, c) ==
    IF \E i \in DOMAIN s : s[i] = c
    THEN CHOOSE i \in DOMAIN s : s[i] = c /\ \A j \in 1..(i - 1) : s[j] # c
    ELSE 0

\* getopt.long_has_args: (has_arg, option name) or GetoptError
long_has_args(opt, longopts) ==
    LET possibilities == SelectSeq(longopts, LAMBDA o : StartsWith(o, opt))
        unique_match == possibilities[1]
        has_arg == unique_match[Len(unique_match)] = "="
    IN IF possibilities = <<>> THEN Raise("GetoptError")
       ELSE IF \E i \in DOMAIN possibilities : possibilities[i] = opt
       THEN Return(<<FALSE, opt>>)
       ELSE IF \E i \in DOMAIN possibilities : possibilities[i] = opt \o <<"=">>
       THEN Return(<<TRUE, opt>>)
       ELSE IF Len(possibilities) > 1 THEN Raise("GetoptError")
       ELSE Return(<<has_arg,
                     IF has_arg THEN SubSeq(unique_match, 1, Len(unique_match) - 1)
                     ELSE unique_match>>)

\* getopt.do_longs: (opts, args) or GetoptError; `opt` is the argument
\* without its leading "--"
do_longs(opts, opt, longopts, args) ==
    LET i == Find(opt, "=")
        name == IF i = 0 THEN opt ELSE SubSeq(opt, 1, i - 1)
        given == i # 0                      \* optarg is not None
        optarg == IF i = 0 THEN <<>> ELSE Drop(opt, i)
        found == long_has_args(name, longopts)
    IN IF found.kind = "raise" THEN found
       ELSE IF found.value[1]
       THEN IF ~given
            THEN IF args = <<>> THEN Raise("GetoptError")
                 ELSE Return([opts |-> Append(opts, <<ArgDashDash \o found.value[2], Head(args)>>),
                              args |-> Tail(args)])
            ELSE Return([opts |-> Append(opts, <<ArgDashDash \o found.value[2], optarg>>),
                         args |-> args])
       ELSE IF given THEN Raise("GetoptError")
       ELSE Return([opts |-> Append(opts, <<ArgDashDash \o found.value[2], <<>> >>),
                    args |-> args])

\* getopt.short_has_arg: whether the option takes a value, or GetoptError
short_has_arg(opt, shortopts) ==
    LET hits == {i \in DOMAIN shortopts : shortopts[i] = opt /\ opt # ":"}
        i == CHOOSE h \in hits : \A g \in hits : h <= g
    IN IF hits = {} THEN Raise("GetoptError")
       ELSE Return(i + 1 \in DOMAIN shortopts /\ shortopts[i + 1] = ":")

\* getopt.do_shorts: `optstring` is the argument without its leading "-"
RECURSIVE do_shorts(_, _, _, _)
do_shorts(opts, optstring, shortopts, args) ==
    IF optstring = <<>> THEN Return([opts |-> opts, args |-> args])
    ELSE LET opt == Head(optstring)
             rest == Tail(optstring)
             has_arg == short_has_arg(opt, shortopts)
         IN IF has_arg.kind = "raise" THEN has_arg
            ELSE IF has_arg.value
            THEN IF rest = <<>>
                 THEN IF args = <<>> THEN Raise("GetoptError")
                      ELSE Return([opts |-> Append(opts, <<<<"-", opt>>, Head(args)>>),
                                   args |-> Tail(args)])
                 ELSE Return([opts |-> Append(opts, <<<<"-", opt>>, rest>>),
                              args |-> args])
            ELSE do_shorts(Append(opts, <<<<"-", opt>>, <<>> >>), rest, shortopts, args)

\* getopt.getopt: the (option, value) pairs, or GetoptError
RECURSIVE getopt_scan(_, _, _, _)
getopt_scan(opts, args, shortopts, longopts) ==
    IF args # <<>> /\ StartsWith(Head(args), <<"-">>) /\ Head(args) # <<"-">>
    THEN IF Head(args) = ArgDashDash
         THEN Return([opts |-> opts, args |-> Tail(args)])
         ELSE LET step == IF StartsWith(Head(args), ArgDashDash)
                          THEN do_longs(opts, Drop(Head(args), 2), longopts, Tail(args))
                          ELSE do_shorts(opts, Drop(Head(args), 1), shortopts, Tail(args))
              IN IF step.kind = "raise" THEN step
                 ELSE getopt_scan(step.value.opts, step.value.args, shortopts, longopts)
    ELSE Return([opts |-> opts, args |-> args])

getopt(args, shortopts, longopts) == getopt_scan(<<>>, args, shortopts, longopts)

\* datetime.fromisoformat(arg) succeeds
IsIsoFormat(arg) == arg = ArgIso

\* main's `for opt, arg in opts`: exits (sys.exit() after the usage line),
\* raises (fromisoformat's ValueError) or leaves a fromdate
RECURSIVE options_loop(_, _)
options_loop(opts, date) ==
    IF opts = <<>> THEN [kind |-> "run", fromdate |-> date]
    ELSE LET opt == Head(opts)[1]
             arg == Head(opts)[2]
         IN IF opt = ArgH THEN [kind |-> "exit"]
            ELSE IF opt \in {ArgD, ArgDate}
            THEN IF IsIsoFormat(arg) THEN options_loop(Tail(opts), arg)
                 ELSE [kind |-> "raise", exc |-> "ValueError"]
            ELSE options_loop(Tail(opts), date)

\* datetime.now() - timedelta(90)
NinetyDaysAgo == <<"n", "o", "w", "-", "90d">>

----------------------------------------------------------------------------
(* The bank's API, as the downloader sees it *)

Final == "starlingbank_download.py"
Legacy == "starlingbank-download.py"

TokenName(i) == "token-" \o ToString(i)
Tokens(n) == [i \in 1..n |-> TokenName(i)]
AccountNames == {"Personal", "Joint"}

\* the bank gives every account its own accountUid
AccountUid(t, k) == "account-" \o ToString(t) \o "-" \o ToString(k)
Account(t, k, name) ==
    [accountUid |-> AccountUid(t, k),
     defaultCategory |-> AccountUid(t, k) \o "-default",
     name |-> name]

\* GET /accounts for the t-th token, when the tokens before it held `known`
\* accounts: any list of accounts that keeps the run within MaxAccounts
AccountsResponses(t, known) ==
    UNION {{[accounts |-> [k \in 1..n |-> Account(t, k, names[k])]] :
                names \in [1..n -> AccountNames]} : n \in 0..(MaxAccounts - known)}

\* GET /accounts/{accountUid}/identifiers
IdentifiersResponse(accountUid) ==
    [bankIdentifier |-> "608371", accountIdentifier |-> "number-of-" \o accountUid]

\* GET /account/{accountUid}/spaces: with no savingsGoals member, or with up
\* to MaxSpaces savings goals
SpacesResponses(accountUid) ==
    {EmptyDict} \cup
    {[savingsGoals |-> [j \in 1..n |->
            [savingsGoalUid |-> accountUid \o "-space-" \o ToString(j),
             name |-> "Holiday"]]] : n \in 0..MaxSpaces}

\* GET /feed/account/{accountUid}/category/{categoryUid}
FeedResponse(accountUid, categoryUid) ==
    [feedItems |-> <<[feedItemUid |-> "item-of-" \o categoryUid,
                      categoryUid |-> categoryUid]>>]

\* GET /accounts/{accountUid}/balance
BalanceResponse(accountUid) ==
    [amount |-> [minorUnits |-> 12345, currency |-> "GBP"],
     balanceOf |-> accountUid]

\* GET /payees
PayeesResponse(token) == [payees |-> <<[payeeUid |-> "payee-of-" \o token]>>]

HTTP_STATUS == {200, 401, 503}
\* Response.raise_for_status raises HTTPError
raises_for_status(status) == status >= 400

----------------------------------------------------------------------------
(* Steps shared by the request functions *)

importer_vars == <<ivars, txn>>
config_vars == <<script, argv, TOKEN_LIST>>

\* the script's ceiling of requests per second
MAX_REQ_PS == 5

\* no delay at `here`
time_sleep_skipped(here, next) ==
    /\ dpc = here
    /\ dpc' = next
    /\ UNCHANGED <<importer_vars, config_vars, fromdate, exit_status, stdout, tk,
                   accounts, ac, doc, transactions, spaces_categories, sp, files,
                   enumerated, n_requests, slept, failed>>

\* time.sleep(1/MAX_REQ_PS) at `here`
time_sleep(here, next) ==
    /\ dpc = here
    /\ dpc' = next
    /\ slept' = slept + 1000 \div MAX_REQ_PS
    /\ UNCHANGED <<importer_vars, config_vars, fromdate, exit_status, stdout, tk,
                   accounts, ac, doc, transactions, spaces_categories, sp, files,
                   enumerated, n_requests, failed>>

\* requests.get(...) at `here` with the HTTPError swallowed: the run goes on
requests_get_unchecked(here, status, next) ==
    /\ dpc = here
    /\ n_requests' = n_requests + 1
    /\ slept' = 0
    /\ failed' = (failed \/ raises_for_status(status))
    /\ dpc' = next
    /\ exit_status' = exit_status

\* requests.get(...) at `here` answered with `status`, and raise_for_status:
\* an HTTPError leaves main and ends the process with status 1
requests_get(here, status, next) ==
    /\ dpc = here
    /\ n_requests' = n_requests + 1
    /\ slept' = 0
    /\ failed' = (failed \/ raises_for_status(status))
    /\ dpc' = IF raises_for_status(status) THEN "aborted" ELSE next
    /\ exit_status' = IF raises_for_status(status) THEN 1 ELSE exit_status

\* {today}-starlingbank-{account_name}.json, on the day of the run
FileName(account_name) == <<"{today}", "-starlingbank-", account_name, ".json">>
\* open(filename, "w") and json.dump: the file is created or replaced
WriteFile(fs, name, content) ==
    [f \in DOMAIN fs \cup {name} |-> IF f = name THEN content ELSE fs[f]]

----------------------------------------------------------------------------
(* main of both scripts: the command line *)

main_parse ==
    /\ dpc = "main"
    /\ LET parsed == getopt(argv, SHORTOPTS, LONGOPTS)
           looped == options_loop(parsed.value.opts, NinetyDaysAgo)
       IN IF parsed.kind = "raise"
          THEN /\ stdout' = Append(stdout, USAGE)
               /\ exit_status' = 2
               /\ dpc' = "exited"
               /\ fromdate' = fromdate
          ELSE IF looped.kind = "exit"
          THEN /\ stdout' = Append(stdout, USAGE)
               /\ exit_status' = 0
               /\ dpc' = "exited"
               /\ fromdate' = fromdate
          ELSE IF looped.kind = "raise"
          THEN /\ stdout' = stdout
               /\ exit_status' = 1
               /\ dpc' = "exited"
               /\ fromdate' = fromdate
          ELSE /\ fromdate' = looped.fromdate
               /\ exit_status' = exit_status
               /\ IF script = Final
                  THEN dpc' = "main:144" /\ stdout' = stdout
                  ELSE /\ dpc' = "legacy:23"
                       /\ stdout' = Append(stdout, "## Getting accounts")
    \* main's parameter is not read after the options loop: a run that goes
    \* on keeps fromdate only
    /\ argv' = IF dpc' = "exited" THEN argv ELSE <<>>
    /\ UNCHANGED <<importer_vars, script, TOKEN_LIST, tk, accounts, ac, doc,
                   transactions, spaces_categories, sp, files, enumerated,
                   n_requests, slept, failed>>

----------------------------------------------------------------------------
(* starlingbank_download.py *)

\* for token in TOKEN_LIST
main_for_token ==
    /\ dpc = "main:144"
    /\ IF tk < Len(TOKEN_LIST)
       THEN tk' = tk + 1 /\ dpc' = "get_accounts:24" /\ exit_status' = exit_status
       ELSE tk' = tk /\ dpc' = "done" /\ exit_status' = 0
    /\ UNCHANGED <<importer_vars, config_vars, fromdate, stdout, accounts, ac, doc,
                   transactions, spaces_categories, sp, files, enumerated,
                   n_requests, slept, failed>>

get_accounts_sleep == time_sleep("get_accounts:24", "get_accounts:27")

get_accounts_request ==
    \E status \in HTTP_STATUS, response \in AccountsResponses(tk, Cardinality(enumerated)) :
        /\ requests_get("get_accounts:27", status, "main:146")
        /\ IF raises_for_status(status)
           THEN UNCHANGED <<accounts, ac, enumerated>>
           ELSE /\ accounts' = response
                /\ ac' = 0
                /\ enumerated' = enumerated \cup
                        {response.accounts[k] : k \in DOMAIN response.accounts}
        /\ UNCHANGED <<importer_vars, config_vars, fromdate, stdout, tk, doc,
                       transactions, spaces_categories, sp, files>>

\* for account in accounts.get("accounts"): entries = {}, entries["account"]
main_for_account ==
    /\ dpc = "main:146"
    /\ IF ac < Len(accounts.accounts)
       THEN /\ ac' = ac + 1
            /\ doc' = [account |-> accounts.accounts[ac + 1]]
            /\ dpc' = "get_account_identifiers:35"
       ELSE /\ dpc' = "main:144"
            /\ UNCHANGED <<ac, doc>>
    /\ UNCHANGED <<importer_vars, config_vars, fromdate, exit_status, stdout, tk,
                   accounts, transactions, spaces_categories, sp, files, enumerated,
                   n_requests, slept, failed>>

get_account_identifiers_sleep ==
    time_sleep("get_account_identifiers:35", "get_account_identifiers:39")

get_account_identifiers_request ==
    \E status \in HTTP_STATUS :
        /\ requests_get("get_account_identifiers:39", status, "get_account_spaces:62")
        /\ doc' = IF raises_for_status(status) THEN doc
                  ELSE Update(doc, [identifiers |->
                                        IdentifiersResponse(doc.account.accountUid)])
        /\ UNCHANGED <<importer_vars, config_vars, fromdate, stdout, tk, accounts, ac,
                       transactions, spaces_categories, sp, files, enumerated>>

get_account_spaces_sleep ==
    time_sleep("get_account_spaces:62", "get_account_spaces:66")

get_account_spaces_request ==
    /\ dpc = "get_account_spaces:66"
    /\ \E status \in HTTP_STATUS, response \in SpacesResponses(doc.account.accountUid) :
        /\ requests_get("get_account_spaces:66", status, "get_account_transactions:75")
        /\ doc' = IF raises_for_status(status) THEN doc
                  ELSE Update(doc, [spaces |-> response])
        /\ UNCHANGED <<importer_vars, config_vars, fromdate, stdout, tk, accounts, ac,
                       transactions, spaces_categories, sp, files, enumerated>>

get_account_transactions_sleep ==
    time_sleep("get_account_transactions:75", "get_account_transactions:81")

\* the feed of the account's default category
get_account_transactions_request ==
    \E status \in HTTP_STATUS :
        /\ requests_get("get_account_transactions:81", status,
                        "get_account_transactions:89")
        /\ transactions' =
                IF raises_for_status(status) THEN [feedItems |-> <<>>]
                ELSE [feedItems |-> FeedResponse(doc.account.accountUid,
                                                 doc.account.defaultCategory).feedItems]
        /\ UNCHANGED <<importer_vars, config_vars, fromdate, stdout, tk, accounts, ac,
                       doc, spaces_categories, sp, files, enumerated>>

get_account_transactions_spaces_sleep ==
    time_sleep("get_account_transactions:89", "get_account_transactions:90")

\* the spaces, asked again, the account having the spaces it had a moment
\* before; without savingsGoals (KeyError) there are none
get_account_transactions_spaces_request ==
    /\ dpc = "get_account_transactions:90"
    /\ \E status \in HTTP_STATUS, response \in {doc.spaces} :
        /\ requests_get("get_account_transactions:90", status,
                        "get_account_transactions:104")
        /\ IF raises_for_status(status)
           THEN UNCHANGED <<spaces_categories, sp>>
           ELSE /\ spaces_categories' =
                        IF "savingsGoals" \in DOMAIN response
                        THEN [j \in DOMAIN response.savingsGoals |->
                                    response.savingsGoals[j].savingsGoalUid]
                        ELSE <<>>
                /\ sp' = 0
        /\ UNCHANGED <<importer_vars, config_vars, fromdate, stdout, tk, accounts, ac,
                       doc, transactions, files, enumerated>>

\* for space_category in spaces_categories; after it, return transactions
\* into entries["transactions"]
get_account_transactions_for_space ==
    /\ dpc = "get_account_transactions:104"
    /\ IF sp < Len(spaces_categories)
       THEN /\ sp' = sp + 1
            /\ dpc' = "get_account_transactions:106"
            /\ doc' = doc
       ELSE /\ sp' = sp
            /\ dpc' = "get_account_balance:49"
            /\ doc' = Update(doc, [transactions |-> transactions])
    /\ UNCHANGED <<importer_vars, config_vars, fromdate, exit_status, stdout, tk,
                   accounts, ac, transactions, spaces_categories, files, enumerated,
                   n_requests, slept, failed>>

get_account_transactions_space_sleep ==
    time_sleep("get_account_transactions:106", "get_account_transactions:107")

\* the feed of one space, appended to the feed items so far
get_account_transactions_space_request ==
    \E status \in HTTP_STATUS :
        /\ requests_get("get_account_transactions:107", status,
                        "get_account_transactions:104")
        /\ transactions' =
                IF raises_for_status(status) THEN transactions
                ELSE [feedItems |-> transactions.feedItems \o
                        FeedResponse(doc.account.accountUid,
                                     spaces_categories[sp]).feedItems]
        /\ UNCHANGED <<importer_vars, config_vars, fromdate, stdout, tk, accounts, ac,
                       doc, spaces_categories, sp, files, enumerated>>

get_account_balance_sleep ==
    time_sleep("get_account_balance:49", "get_account_balance:53")

get_account_balance_request ==
    \E status \in HTTP_STATUS :
        /\ requests_get("get_account_balance:53", status, "get_account_payees:119")
        /\ doc' = IF raises_for_status(status) THEN doc
                  ELSE Update(doc, [balance |-> BalanceResponse(doc.account.accountUid)])
        /\ UNCHANGED <<importer_vars, config_vars, fromdate, stdout, tk, accounts, ac,
                       transactions, spaces_categories, sp, files, enumerated>>

get_account_payees_sleep ==
    time_sleep("get_account_payees:119", "get_account_payees:122")

get_account_payees_request ==
    \E status \in HTTP_STATUS :
        /\ requests_get("get_account_payees:122", status, "main:154")
        /\ doc' = IF raises_for_status(status) THEN doc
                  ELSE Update(doc, [payees |-> PayeesResponse(TOKEN_LIST[tk]).payees])
        /\ UNCHANGED <<importer_vars, config_vars, fromdate, stdout, tk, accounts, ac,
                       transactions, spaces_categories, sp, files, enumerated>>

\* filename from account.get("name"), open(filename, "w"), json.dump(entries)
main_write_file ==
    /\ dpc = "main:154"
    /\ files' = WriteFile(files, FileName(doc.account.name), doc)
    /\ dpc' = "main:146"
    /\ UNCHANGED <<importer_vars, config_vars, fromdate, exit_status, stdout, tk,
                   accounts, ac, doc, transactions, spaces_categories, sp, enumerated,
                   n_requests, slept, failed>>

----------------------------------------------------------------------------
(* starlingbank-download.py: one token, no delay, one feed file per account *)

legacy_get_accounts ==
    \E status \in HTTP_STATUS, response \in AccountsResponses(tk, Cardinality(enumerated)) :
        /\ requests_get("legacy:23", status, "legacy:29")
        /\ IF raises_for_status(status)
           THEN UNCHANGED <<accounts, ac, enumerated, stdout>>
           ELSE /\ accounts' = response
                /\ ac' = 0
                /\ enumerated' = enumerated \cup
                        {response.accounts[k] : k \in DOMAIN response.accounts}
                /\ stdout' = Append(stdout, "## Getting balances")
        /\ UNCHANGED <<importer_vars, config_vars, fromdate, tk, doc, transactions,
                       spaces_categories, sp, files>>

\* get_accounts_balance: for account in accounts.get("accounts")
legacy_for_balance ==
    /\ dpc = "legacy:29"
    /\ IF ac < Len(accounts.accounts)
       THEN /\ ac' = ac + 1
            /\ dpc' = "legacy:33"
            /\ stdout' = stdout
       ELSE /\ ac' = 0
            /\ dpc' = "legacy:50"
            /\ stdout' = Append(stdout, "## Getting transactions")
    /\ UNCHANGED <<importer_vars, config_vars, fromdate, exit_status, tk, accounts,
                   doc, transactions, spaces_categories, sp, files, enumerated,
                   n_requests, slept, failed>>

legacy_balance_request ==
    \E status \in HTTP_STATUS :
        /\ requests_get("legacy:33", status, "legacy:39")
        /\ doc' = IF raises_for_status(status) THEN doc
                  ELSE BalanceResponse(accounts.accounts[ac].accountUid)
        /\ UNCHANGED <<importer_vars, config_vars, fromdate, stdout, tk, accounts, ac,
                       transactions, spaces_categories, sp, files, enumerated>>

\* the identifiers, then the printed line
legacy_identifiers_request ==
    \E status \in HTTP_STATUS :
        /\ requests_get("legacy:39", status, "legacy:29")
        /\ stdout' = IF raises_for_status(status) THEN stdout
                     ELSE Append(stdout, accounts.accounts[ac].name)
        /\ UNCHANGED <<importer_vars, config_vars, fromdate, tk, accounts, ac, doc,
                       transactions, spaces_categories, sp, files, enumerated>>

\* get_accounts_transactions: for account in accounts.get("accounts")
legacy_for_transactions ==
    /\ dpc = "legacy:50"
    /\ IF ac < Len(accounts.accounts)
       THEN ac' = ac + 1 /\ dpc' = "legacy:55" /\ exit_status' = exit_status
       ELSE ac' = ac /\ dpc' = "done" /\ exit_status' = 0
    /\ UNCHANGED <<importer_vars, config_vars, fromdate, stdout, tk, accounts, doc,
                   transactions, spaces_categories, sp, files, enumerated,
                   n_requests, slept, failed>>

legacy_feed_request ==
    \E status \in HTTP_STATUS :
        /\ requests_get("legacy:55", status, "legacy:60")
        /\ doc' = IF raises_for_status(status) THEN doc
                  ELSE FeedResponse(accounts.accounts[ac].accountUid,
                                    accounts.accounts[ac].defaultCategory)
        /\ UNCHANGED <<importer_vars, config_vars, fromdate, stdout, tk, accounts, ac,
                       transactions, spaces_categories, sp, files, enumerated>>

legacy_write_file ==
    /\ dpc = "legacy:60"
    /\ files' = WriteFile(files, FileName(accounts.accounts[ac].name), doc)
    /\ dpc' = "legacy:50"
    /\ UNCHANGED <<importer_vars, config_vars, fromdate, exit_status, stdout, tk,
                   accounts, ac, doc, transactions, spaces_categories, sp, enumerated,
                   n_requests, slept, failed>>

----------------------------------------------------------------------------
(* A run of a downloader *)

\* every command line of at most MaxArgs arguments
CommandLines == UNION {[1..n -> Arguments] : n \in 0..MaxArgs}

\* the importer's variables, while a downloader runs
ImporterIdle ==
    /\ filepath = [name |-> "statement", ext |-> "", content |-> [t |-> "malformed"]]
    /\ account_id = "account-1"
    /\ ipc = "off"
    /\ idx = 0
    /\ entries = <<>>
    /\ counter = 0
    /\ payee_lookups = {}
    /\ today = 0
    /\ outcome = [kind |-> "none"]
    /\ txn = [status |-> "none"]

\* the downloader's variables, as the process starts main
DownloaderStart ==
    /\ dpc = "main"
    /\ fromdate = NinetyDaysAgo
    /\ exit_status = -1
    /\ stdout = <<>>
    /\ tk = 0
    /\ accounts = [accounts |-> <<>>]
    /\ ac = 0
    /\ doc = EmptyDict
    /\ transactions = [feedItems |-> <<>>]
    /\ spaces_categories = <<>>
    /\ sp = 0
    /\ files = [f \in {} |-> EmptyDict]
    /\ enumerated = {}
    /\ n_requests = 0
    /\ slept = 0
    /\ failed = FALSE

\* any command line, with up to MaxTokens tokens configured; the older
\* script has its one TOKEN
InitDownloader ==
    /\ ImporterIdle
    /\ DownloaderStart
    /\ script \in {Final, Legacy}
    /\ argv \in CommandLines
    /\ TOKEN_LIST \in IF script = Final THEN {Tokens(n) : n \in 0..MaxTokens}
                                        ELSE {Tokens(1)}

NextDownloader ==
    \/ main_parse
    \/ main_for_token
    \/ get_accounts_sleep
    \/ get_accounts_request
    \/ main_for_account
    \/ get_account_identifiers_sleep
    \/ get_account_identifiers_request
    \/ get_account_spaces_sleep
    \/ get_account_spaces_request
    \/ get_account_transactions_sleep
    \/ get_account_transactions_request
    \/ get_account_transactions_spaces_sleep
    \/ get_account_transactions_spaces_request
    \/ get_account_transactions_for_space
    \/ get_account_transactions_space_sleep
    \/ get_account_transactions_space_request
    \/ get_account_balance_sleep
    \/ get_account_balance_request
    \/ get_account_payees_sleep
    \/ get_account_payees_request
    \/ main_write_file
    \/ legacy_get_accounts
    \/ legacy_for_balance
    \/ legacy_balance_request
    \/ legacy_identifiers_request
    \/ legacy_for_transactions
    \/ legacy_feed_request
    \/ legacy_write_file

SpecDownloader == InitDownloader /\ [][NextDownloader]_vars

\* the downloader's variables, while the importer runs
DownloaderOff ==
    /\ script = Final
    /\ argv = <<>>
    /\ TOKEN_LIST = <<>>
    /\ dpc = "off"
    /\ fromdate = NinetyDaysAgo
    /\ exit_status = -1
    /\ stdout = <<>>
    /\ tk = 0
    /\ accounts = [accounts |-> <<>>]
    /\ ac = 0
    /\ doc = EmptyDict
    /\ transactions = [feedItems |-> <<>>]
    /\ spaces_categories = <<>>
    /\ sp = 0
    /\ files = [f \in {} |-> EmptyDict]
    /\ enumerated = {}
    /\ n_requests = 0
    /\ slept = 0
    /\ failed = FALSE

----------------------------------------------------------------------------
(* The files the importer is tried on *)

DefaultCategory == "category-default"
SpaceCategory == "category-space"
Days == 1..MaxDay
Timestamp(day, time) == [date |-> day, time |-> time]

\* Importer.importer_account, the configured ledger account
LedgerAccount == "Assets:Starling"

BaseItem ==
    [categoryUid |-> DefaultCategory,
     amount |-> [minorUnits |-> 250, currency |-> "GBP"],
     sourceAmount |-> [minorUnits |-> 250, currency |-> "GBP"],
     direction |-> "OUT",
     counterPartyType |-> "MERCHANT",
     counterPartyUid |-> "payee-1",
     counterPartyName |-> "Counterparty",
     counterPartySubEntityUid |-> "payee-account-1",
     counterPartySubEntityIdentifier |-> "608371",
     counterPartySubEntitySubIdentifier |-> "12345678",
     source |-> "MASTER_CARD",
     status |-> "SETTLED",
     transactionTime |-> Timestamp(1, "T09:30:00.000Z"),
     settlementTime |-> Timestamp(1, "T21:00:00.000Z"),
     updatedAt |-> Timestamp(1, "T21:00:00.000Z")]

\* feed items that differ in status, in day and in category
StatusItems ==
    {[BaseItem EXCEPT !.status = s] : s \in VALID_STATUS \cup {"DECLINED"}}
    \cup {[BaseItem EXCEPT !.status = s,
                           !.transactionTime = Timestamp(d, "T09:30:00.000Z")] :
            s \in {"SETTLED", "DECLINED"}, d \in Days}
    \cup {[BaseItem EXCEPT !.transactionTime = Timestamp(1, "T23:59:59.000Z")],
          [BaseItem EXCEPT !.categoryUid = SpaceCategory]}

\* ... in direction and source, and internal transfers of nothing
PostingItems ==
    {[BaseItem EXCEPT !.direction = d, !.source = s] :
        d \in {"IN", "OUT"}, s \in {"INTERNAL_TRANSFER", "MASTER_CARD"}}
    \cup {[BaseItem EXCEPT !.direction = d, !.source = "INTERNAL_TRANSFER",
                           !.amount.minorUnits = 0, !.sourceAmount.minorUnits = 0] :
            d \in {"IN", "OUT"}}

\* ... in counterparty: a sender, a payee on file, a payee or a payee account
\* not on file, a category, a sender paid through Stripe
CounterpartyItems ==
    {[BaseItem EXCEPT !.counterPartyType = t, !.source = "FASTER_PAYMENTS_IN"] :
        t \in {"SENDER", "PAYEE", "CATEGORY"}}
    \cup {[BaseItem EXCEPT !.counterPartyType = "PAYEE", !.counterPartyUid = "payee-2"],
          [BaseItem EXCEPT !.counterPartyType = "PAYEE",
                           !.counterPartySubEntityUid = "payee-account-2"],
          [BaseItem EXCEPT !.counterPartyType = "SENDER",
                           !.source = "STARLING_PAY_STRIPE"]}

\* ... in amount and source amount (payments in another currency)
PriceItems ==
    {[BaseItem EXCEPT !.amount.minorUnits = m, !.sourceAmount.minorUnits = f,
                      !.sourceAmount.currency = "USD"] :
        m \in {0, 250}, f \in {0, 500}}
    \cup {[BaseItem EXCEPT !.amount.minorUnits = 0, !.sourceAmount.minorUnits = 500,
                           !.sourceAmount.currency = "USD",
                           !.counterPartyType = "PAYEE",
                           !.counterPartyUid = "payee-2"]}

\* ... and in the optional members
OptionalItems ==
    {BaseItem @@ [reference |-> "REF"],
     BaseItem @@ [counterPartySubEntityName |-> "Sub entity"],
     BaseItem @@ [reference |-> "REF", counterPartySubEntityName |-> "Sub entity"]}

Items == StatusItems \cup PostingItems \cup CounterpartyItems \cup PriceItems
            \cup OptionalItems

FeedItemUid(k) == "feed-item-" \o ToString(k)

\* a feedItems list of the given items; the bank's feedItemUids are unique
Feed(items) == [k \in DOMAIN items |-> items[k] @@ [feedItemUid |-> FeedItemUid(k)]]

\* the document starlingbank_download.py writes for an account
Snapshot(accountUid, feed) ==
    JObject([account |-> JObject([accountUid |-> accountUid,
                                  defaultCategory |-> DefaultCategory,
                                  name |-> "Personal"]),
             identifiers |-> [bankIdentifier |-> "608371",
                              accountIdentifier |-> "87654321"],
             spaces |-> [savingsGoals |->
                            <<[savingsGoalUid |-> SpaceCategory, name |-> "Holiday"]>>],
             transactions |-> [feedItems |-> feed],
             balance |-> [totalClearedBalance |->
                            [minorUnits |-> 12345, currency |-> "GBP"]],
             payees |-> <<[payeeUid |-> "payee-1",
                           accounts |-> <<[payeeAccountUid |-> "payee-account-1",
                                           bankIdentifier |-> "040004",
                                           accountIdentifier |-> "11223344",
                                           description |-> "Rent"]>>]>>])

File(name, ext, content) == [name |-> name, ext |-> ext, content |-> content]

AccountUids == {"account-1", "account-2"}

\* files of any kind the import host may offer to identify
OtherFiles ==
    {File("statement", ext, content) :
        ext \in {".json", ".csv", ""},
        content \in {Malformed, JArray, JObject(EmptyDict),
                     JObject([feedItems |-> <<>>]),
                     JObject([account |-> JNull]),
                     JObject([account |-> JObject(EmptyDict)])}
                    \cup {JObject([account |-> JObject([accountUid |-> u])]) :
                            u \in AccountUids}}

SnapshotFile(feed) ==
    File("2024-01-05-starlingbank-Personal", ".json", Snapshot("account-1", feed))

\* a file of any kind, or a snapshot whose feed is any list of at most
\* MaxFeed items
InitImporter ==
    /\ \/ filepath \in OtherFiles
       \/ \E n \in 0..MaxFeed : \E items \in [1..n -> Items] :
            filepath = SnapshotFile(Feed(items))
    /\ account_id \in AccountUids
    /\ ipc = "idle"
    /\ idx = 0
    /\ entries = <<>>
    /\ counter = 0
    /\ payee_lookups = {}
    /\ today = 0
    /\ outcome = NoOutcome
    /\ txn = BaseItem
    /\ DownloaderOff

----------------------------------------------------------------------------
(* The import host calls identify, and extract on a file identify accepted *)

Identify ==
    /\ ipc = "idle"
    /\ outcome' = identify(filepath, account_id)
    /\ ipc' = "identified"
    /\ UNCHANGED <<filepath, account_id, idx, entries, counter, payee_lookups,
                   today, txn, dvars>>

Accepted == /\ ipc = "identified"
            /\ outcome.kind = "return"
            /\ outcome.value.b

\* extract, up to the loop: entries = [], counter = itertools.count(), and
\* the two reads of the file
extract_begin ==
    /\ Accepted
    /\ LET default_category == get_account_default_category(filepath)
           feedItems == get_transactions(filepath)
       IN IF default_category.kind = "raise"
          THEN /\ outcome' = default_category
               /\ ipc' = "failed"
               /\ idx' = idx
          ELSE IF feedItems.kind = "raise"
          THEN /\ outcome' = feedItems
               /\ ipc' = "failed"
               /\ idx' = idx
          ELSE IF feedItems.value.py # "list"
          THEN /\ outcome' = Raise("TypeError")     \* reversed(False)
               /\ ipc' = "failed"
               /\ idx' = idx
          ELSE /\ outcome' = NoOutcome
               /\ ipc' = "loop"
               /\ idx' = Len(feedItems.value.items)
    /\ entries' = <<>>
    /\ counter' = 0
    /\ UNCHANGED <<filepath, account_id, payee_lookups, today, txn, dvars>>

\* one pass of `for transaction in reversed(transactions)`
extract_iteration ==
    /\ ipc = "loop"
    /\ idx >= 1
    /\ LET transaction == get_transactions(filepath).value.items[idx]
           default_category == get_account_default_category(filepath).value
           price == get_unit_price(transaction)
       IN IF transaction.status \notin VALID_STATUS
          THEN /\ idx' = idx - 1
               /\ UNCHANGED <<entries, counter, payee_lookups, ipc, outcome>>
          ELSE /\ payee_lookups' =
                     IF counterparty_arm(transaction) = "payee"
                     THEN payee_lookups \cup {transaction.feedItemUid}
                     ELSE payee_lookups
               /\ counter' = counter + 1
               /\ IF price.kind = "raise"
                  THEN /\ outcome' = price
                       /\ ipc' = "failed"
                       /\ UNCHANGED <<entries, idx>>
                  ELSE /\ entries' = Append(entries,
                              transaction_entry(filepath, LedgerAccount, transaction,
                                                default_category, counter, price.value))
                       /\ idx' = idx - 1
                       /\ UNCHANGED <<ipc, outcome>>
    /\ UNCHANGED <<filepath, account_id, today, txn, dvars>>

\* the date of the balance assertion: entries[-1].date, or today when
\* entries is empty, plus one day
balance_date(es, day) == (IF es = <<>> THEN day ELSE es[Len(es)].date) + 1

\* extract, after the loop
extract_finish ==
    /\ ipc = "loop"
    /\ idx = 0
    /\ \E day \in {MaxDay, MaxDay + 1} :
        /\ today' = day
        /\ LET balance == balance_entry(filepath, LedgerAccount,
                                        balance_date(entries, day), counter)
           IN /\ entries' = Append(entries, balance)
              /\ outcome' = Return(data_sorted(Append(entries, balance)))
    /\ counter' = counter + 1
    /\ ipc' = "done"
    /\ UNCHANGED <<filepath, account_id, idx, payee_lookups, txn, dvars>>

NextImporter == Identify \/ extract_begin \/ extract_iteration \/ extract_finish

SpecImporter == InitImporter /\ [][NextImporter]_vars

----------------------------------------------------------------------------
(* get_unit_price on its own, over every small pair of minor-unit amounts *)

MinorUnits == -MaxMinor..MaxMinor

InitUnitPrice ==
    /\ txn \in {[BaseItem EXCEPT !.amount = [minorUnits |-> m, currency |-> c],
                                 !.sourceAmount = [minorUnits |-> f, currency |-> d]] :
                    m \in MinorUnits, f \in MinorUnits,
                    c \in {"GBP", "EUR"}, d \in {"GBP", "USD"}}
    /\ filepath = File("statement", ".json", Snapshot("account-1", <<>>))
    /\ account_id = "account-1"
    /\ ipc = "idle"
    /\ idx = 0
    /\ entries = <<>>
    /\ counter = 0
    /\ payee_lookups = {}
    /\ today = 0
    /\ outcome = NoOutcome
    /\ DownloaderOff

unit_price ==
    /\ ipc = "idle"
    /\ outcome' = get_unit_price(txn)
    /\ ipc' = "priced"
    /\ UNCHANGED <<filepath, account_id, idx, entries, counter, payee_lookups,
                   today, txn, dvars>>

SpecUnitPrice == InitUnitPrice /\ [][unit_price]_vars

----------------------------------------------------------------------------
(* Properties of the importer *)

\* the file is a snapshot document of the downloader
IsSnapshot(fp) ==
    /\ fp.content.t = "object"
    /\ {"account", "identifiers", "spaces", "transactions", "balance", "payees"}
            \subseteq DOMAIN fp.content.v
FeedOf(fp) == fp.content.v.transactions.feedItems
ValidItems(feed) == {k \in DOMAIN feed : feed[k].status \in VALID_STATUS}
TransactionsOf(es) == {i \in DOMAIN es : es[i].type = "Transaction"}
BalancesOf(es) == {i \in DOMAIN es : es[i].type = "Balance"}
ExtractEnded == IsSnapshot(filepath) /\ ipc \in {"done", "failed"}
MaxOf(S) == CHOOSE m \in S : \A n \in S : n <= m

\* C1: when extract returns, its one balance assertion is dated the day after
\* the latest date among the transaction entries it returns, whatever the
\* order of the feed; with no transaction entry, the day after today.
C1_BalanceDayAfterLastTransaction ==
    ipc = "done" =>
        LET es == outcome.value
            dates == {es[i].date : i \in TransactionsOf(es)}
        IN /\ Cardinality(BalancesOf(es)) = 1
           /\ \A b \in BalancesOf(es) :
                es[b].date = (IF dates = {} THEN today ELSE MaxOf(dates)) + 1

\* C2: extract ends by returning one transaction entry per feed item with a
\* valid status, carrying that item's feedItemUid as bank_id, none for the
\* other items, and one balance entry.
C2_OneEntryPerValidItem ==
    ExtractEnded =>
        /\ outcome.kind = "return"
        /\ LET es == outcome.value
               feed == FeedOf(filepath)
           IN /\ Cardinality(TransactionsOf(es)) = Len(feed) - Cardinality(DOMAIN feed \ ValidItems(feed))
              /\ Cardinality(BalancesOf(es)) = 1
              /\ \A k \in ValidItems(feed) :
                    Cardinality({i \in TransactionsOf(es) :
                                    es[i].meta.bank_id = feed[k].feedItemUid}) = 1
              /\ \A i \in TransactionsOf(es) :
                    \E k \in ValidItems(feed) : es[i].meta.bank_id = feed[k].feedItemUid

\* C3: get_unit_price never fails with a division by zero: it returns no
\* price or a positive one, and no price when the source amount is zero.
C3_UnitPriceNeverDividesByZero ==
    ipc = "priced" =>
        /\ outcome.kind = "return"
        /\ outcome.value.py = "None" \/ outcome.value.number.coeff > 0
        /\ txn.sourceAmount.minorUnits = 0 => outcome.value.py = "None"

HasAccountUid(fp) ==
    /\ fp.content.t = "object"
    /\ "account" \in DOMAIN fp.content.v
    /\ fp.content.v.account.t = "object"
    /\ "accountUid" \in DOMAIN fp.content.v.account.v

\* C4: identify never raises; it returns true exactly when the file is JSON
\* and its account.accountUid is the configured identifier, false otherwise.
C4_IdentifyNeverRaises ==
    ipc = "identified" =>
        /\ outcome.kind = "return"
        /\ outcome.value.b <=>
                /\ guess_type(filepath.ext) = "application/json"
                /\ HasAccountUid(filepath)
                /\ filepath.content.v.account.v.accountUid = account_id

\* the feed item a transaction entry was made from
ItemOf(entry) ==
    LET feed == FeedOf(filepath)
    IN feed[CHOOSE k \in DOMAIN feed : feed[k].feedItemUid = entry.meta.bank_id]

SignedMinor(item) ==
    IF item.direction = "OUT" THEN -item.amount.minorUnits ELSE item.amount.minorUnits

\* C5: every transaction entry extract builds has, for an INTERNAL_TRANSFER
\* item of either direction, two postings on the ledger account, of
\* minorUnits/100 with opposite signs; for any other item one posting, of
\* -minorUnits/100 when the direction is OUT and +minorUnits/100 when it is IN.
C5_InternalTransferPostsTwice ==
    \A i \in TransactionsOf(entries) :
        LET item == ItemOf(entries[i])
            ps == entries[i].postings
        IN /\ \A p \in DOMAIN ps :
                /\ ps[p].account = LedgerAccount
                /\ ps[p].units.number.scale = MinorPerUnit
                /\ ps[p].units.currency = item.amount.currency
           /\ ps[1].units.number.coeff = SignedMinor(item)
           /\ IF item.source = "INTERNAL_TRANSFER"
              THEN /\ Len(ps) = 2
                   /\ ps[2].units.number.coeff = -ps[1].units.number.coeff
              ELSE Len(ps) = 1

\* C5's case: an incoming and an outgoing internal transfer of a non-zero
\* amount have both been turned into entries
C5_Witness ==
    /\ ipc = "done"
    /\ \E i, j \in TransactionsOf(entries) :
        /\ ItemOf(entries[i]).source = "INTERNAL_TRANSFER"
        /\ ItemOf(entries[i]).direction = "IN"
        /\ ItemOf(entries[i]).amount.minorUnits > 0
        /\ ItemOf(entries[j]).source = "INTERNAL_TRANSFER"
        /\ ItemOf(entries[j]).direction = "OUT"
        /\ ItemOf(entries[j]).amount.minorUnits > 0
        /\ Len(entries[i].postings) = 2

UnmatchedPayee(fp, item) ==
    /\ item.counterPartyType = "PAYEE"
    /\ \A p \in DOMAIN fp.content.v.payees :
        \A a \in DOMAIN fp.content.v.payees[p].accounts :
            ~ /\ fp.content.v.payees[p].payeeUid = item.counterPartyUid
              /\ fp.content.v.payees[p].accounts[a].payeeAccountUid =
                    item.counterPartySubEntityUid

\* C9: a CATEGORY counterparty never causes a payee lookup, and extract does
\* not fail on a feed with a PAYEE item that matches no payee: it returns
\* with that item's entry, which has no sort code and no account number.
C9_UnmatchedPayeeStillExtracted ==
    /\ IsSnapshot(filepath) =>
        \A k \in DOMAIN FeedOf(filepath) :
            FeedOf(filepath)[k].counterPartyType = "CATEGORY"
                => FeedOf(filepath)[k].feedItemUid \notin payee_lookups
    /\ ExtractEnded =>
        \A k \in ValidItems(FeedOf(filepath)) :
            UnmatchedPayee(filepath, FeedOf(filepath)[k]) =>
                /\ outcome.kind = "return"
                /\ \E i \in TransactionsOf(outcome.value) :
                    /\ outcome.value[i].meta.bank_id = FeedOf(filepath)[k].feedItemUid
                    /\ "counterparty_sort_code" \notin DOMAIN outcome.value[i].meta
                    /\ "counterparty_account_number" \notin DOMAIN outcome.value[i].meta

----------------------------------------------------------------------------
(* Properties of the downloaders *)

NoFiles == [f \in {} |-> EmptyDict]
DocumentKeys == {"account", "identifiers", "spaces", "transactions", "balance", "payees"}

\* C6: the request that gets a non-success response aborts the run with a
\* non-zero exit status and writes nothing, the files written before it
\* staying as they were; once a request has failed no request is made and no
\* file is written.
C6_FailFastNoRollback ==
    [][/\ (failed' /\ ~failed) =>
            /\ dpc' = "aborted"
            /\ exit_status' = 1
            /\ files' = files
       /\ failed => /\ n_requests' = n_requests
                    /\ files' = files
                    /\ dpc' = "aborted"]_vars

\* C6's case: a request of the second token has failed after the first
\* token's account file was written, and the file is on disk
C6_Witness ==
    /\ dpc = "aborted"
    /\ failed
    /\ tk = 2
    /\ \E a \in enumerated :
        /\ a.accountUid = AccountUid(1, 1)
        /\ FileName(a.name) \in DOMAIN files
        /\ files[FileName(a.name)].account = a

\* C7: after a run of starlingbank_download.py that ends without error, every
\* account the tokens listed has its file, named after the account, holding
\* that account's document with its six members; one file per account.
C7_OneFilePerAccount ==
    (script = Final /\ dpc = "done") =>
        /\ \A a \in enumerated :
            /\ FileName(a.name) \in DOMAIN files
            /\ DOMAIN files[FileName(a.name)] = DocumentKeys
            /\ files[FileName(a.name)].account = a
        /\ Cardinality(DOMAIN files) = Cardinality(enumerated)

\* an option neither "hd:" nor "date=" knows
Unrecognized(a) == a \in {ArgHelp, ArgX}
\* an argument that is not an option, or "--": getopt stops scanning at it
EndsOptions(a) == a \in {ArgIso, ArgSoon, ArgDashDash}
UsageAndExit(status) ==
    /\ dpc' = "exited"
    /\ exit_status' = status
    /\ stdout' = <<USAGE>>

\* C8 as stated: -h and --help each print the usage line and exit with
\* status 0, an unrecognized option prints it and exits with status 2, and
\* whenever the process exits from the command line no request has been made
\* and no file written.
C8_HelpOptionsExitZero ==
    [][dpc = "main" =>
        /\ argv \in {<<ArgH>>, <<ArgHelp>>} => UsageAndExit(0)
        /\ argv = <<ArgX>> => UsageAndExit(2)
        /\ dpc' = "exited" => n_requests' = 0 /\ files' = NoFiles]_vars

\* C8, amended: -h, alone or followed by an argument that ends the options,
\* prints the usage line and exits with status 0; an unrecognized option,
\* --help among them, first or after -h options only, prints the usage line
\* and exits with status 2; whenever the process exits from the command line
\* no request has been made and no file written.
C8_OnlyShortHelpExitsZero ==
    [][dpc = "main" =>
        /\ (/\ argv # <<>>
            /\ argv[1] = ArgH
            /\ Len(argv) = 1 \/ EndsOptions(argv[2])) => UsageAndExit(0)
        /\ (\E i \in DOMAIN argv :
                /\ Unrecognized(argv[i])
                /\ \A j \in 1..(i - 1) : argv[j] = ArgH) => UsageAndExit(2)
        /\ dpc' = "exited" => n_requests' = 0 /\ files' = NoFiles]_vars

\* C8's case: --help was given and the process has exited with status 2
C8_Witness ==
    /\ dpc = "exited"
    /\ argv = <<ArgHelp>>
    /\ exit_status = 2
    /\ stdout = <<USAGE>>
    /\ n_requests = 0

\* C10: in starlingbank_download.py every request is made after exactly one
\* delay of 1/MAX_REQ_PS seconds (200 ms) since the request before it, or
\* since the start of the run for the first request.
C10_EveryRequestDelayed ==
    [][(script = Final /\ n_requests' # n_requests) =>
            /\ n_requests' = n_requests + 1
            /\ slept = 200
            /\ slept' = 0]_vars

\* C10's case: a run over two tokens has ended, having fetched an account
\* with a space (both spaces requests and the space's feed among its requests)
C10_Witness ==
    /\ script = Final
    /\ dpc = "done"
    /\ tk = 2
    /\ n_requests >= 9
    /\ \E f \in DOMAIN files : Len(files[f].transactions.feedItems) = 2

====
